---- MODULE Spec2Model ----
(***************************************************************************)
(* Two-pass assembler (src/2PassAssemblerCode.py, class Assembler).        *)
(*                                                                         *)
(* Python strings are modelled as sequences of one-character strings, so   *)
(* that split, strip, replace, int() and str() are modelled by what they   *)
(* do to the text.  The insertion-ordered dicts symbol_table and           *)
(* literal_table are sequences of [key, value] records with unique keys.   *)
(***************************************************************************)
EXTENDS Integers, Sequences, FiniteSets, TLC

\* Number of source lines fed to pass1 in one run.
MaxLines == 3

\* Number of source lines in a run of literal and flush statements.
MaxPoolLines == 6

(***************************************************************************)
(* Python str operations                                                   *)
(***************************************************************************)

MinOf(S) == CHOOSE x \in S : \A y \in S : x <= y

MaxOf(S) == CHOOSE x \in S : \A y \in S : x >= y

\* Characters str.split() and str.strip() without arguments treat as blanks.
Whitespace == {" ", "\n", "\t"}

\* s.strip(chars)
Strip(s, chars) ==
    LET keep == {i \in 1..Len(s) : s[i] \notin chars}
    IN  IF keep = {} THEN <<>> ELSE SubSeq(s, MinOf(keep), MaxOf(keep))

\* sub in s
Contains(sub, s) ==
    \E i \in 0..(Len(s) - Len(sub)) : SubSeq(s, i + 1, i + Len(sub)) = sub

\* s.split(c), c a single character: empty pieces are kept.
RECURSIVE SplitOn(_, _)
SplitOn(s, c) ==
    LET pos == {i \in 1..Len(s) : s[i] = c}
    IN  IF pos = {} THEN <<s>>
        ELSE <<SubSeq(s, 1, MinOf(pos) - 1)>>
                 \o SplitOn(SubSeq(s, MinOf(pos) + 1, Len(s)), c)

\* s.split(): pieces between runs of whitespace, no empty piece.
RECURSIVE Split(_)
Split(s) ==
    LET keep == {i \in 1..Len(s) : s[i] \notin Whitespace}
    IN  IF keep = {} THEN <<>>
        ELSE LET b  == MinOf(keep)
                 ws == {i \in b..Len(s) : s[i] \in Whitespace}
                 e  == IF ws = {} THEN Len(s) + 1 ELSE MinOf(ws)
             IN  <<SubSeq(s, b, e - 1)>> \o Split(SubSeq(s, e, Len(s)))

\* sep.join(parts)
RECURSIVE Join(_, _)
Join(parts, sep) ==
    IF parts = <<>> THEN <<>>
    ELSE IF Len(parts) = 1 THEN parts[1]
    ELSE parts[1] \o sep \o Join(Tail(parts), sep)

\* s.replace(old, new), old not empty: left to right, occurrences do not overlap.
RECURSIVE Replace(_, _, _)
Replace(s, old, new) ==
    IF Len(s) < Len(old) THEN s
    ELSE IF SubSeq(s, 1, Len(old)) = old
         THEN new \o Replace(SubSeq(s, Len(old) + 1, Len(s)), old, new)
         ELSE <<s[1]>> \o Replace(Tail(s), old, new)

DigitChars == <<"0", "1", "2", "3", "4", "5", "6", "7", "8", "9">>

DigitSet == {DigitChars[i] : i \in 1..Len(DigitChars)}

DigitVal(c) == (CHOOSE i \in 1..Len(DigitChars) : DigitChars[i] = c) - 1

\* str(n) of a natural number
RECURSIVE StrNat(_)
StrNat(n) ==
    IF n < Len(DigitChars) THEN <<DigitChars[n + 1]>>
    ELSE StrNat(n \div Len(DigitChars)) \o <<DigitChars[(n % Len(DigitChars)) + 1]>>

\* str(n)
Str(n) == IF n < 0 THEN <<"-">> \o StrNat(0 - n) ELSE StrNat(n)

RECURSIVE NatOf(_)
NatOf(ds) ==
    IF Len(ds) = 1 THEN DigitVal(ds[1])
    ELSE NatOf(SubSeq(ds, 1, Len(ds) - 1)) * Len(DigitChars) + DigitVal(ds[Len(ds)])

\* Whether int(s) returns: blanks around an optional sign and decimal digits.
IsInt(s) ==
    LET t == Strip(s, Whitespace)
        d == IF t # <<>> /\ t[1] \in {"-", "+"} THEN Tail(t) ELSE t
    IN  d # <<>> /\ \A i \in 1..Len(d) : d[i] \in DigitSet

\* int(s), where it returns
IntOf(s) ==
    LET t == Strip(s, Whitespace)
    IN  IF t[1] = "-" THEN 0 - NatOf(Tail(t))
        ELSE IF t[1] = "+" THEN NatOf(Tail(t))
        ELSE NatOf(t)

\* s.zfill(width): zeros on the left, after a leading sign.
ZFill(s, width) ==
    LET zeros == [i \in 1..(width - Len(s)) |-> "0"]
    IN  IF Len(s) >= width THEN s
        ELSE IF s # <<>> /\ s[1] \in {"-", "+"} THEN <<s[1]>> \o zeros \o Tail(s)
        ELSE zeros \o s

(***************************************************************************)
(* Insertion-ordered dict                                                  *)
(***************************************************************************)

\* key in d
HasKey(d, k) == \E i \in 1..Len(d) : d[i].key = k

\* list(d.keys()).index(k) + 1
KeyIndex(d, k) == CHOOSE i \in 1..Len(d) : d[i].key = k

\* d[k]
GetItem(d, k) == d[KeyIndex(d, k)].value

\* A d[k] = v that deletes an existing key and inserts it again, last.
SetItemMovesKey(d, k, v) ==
    Append(SelectSeq(d, LAMBDA e : e.key # k), [key |-> k, value |-> v])

\* d[k] = v: an existing key keeps its position, a new key goes last.
SetItem(d, k, v) ==
    IF HasKey(d, k)
    THEN [i \in 1..Len(d) |-> IF d[i].key = k THEN [key |-> k, value |-> v] ELSE d[i]]
    ELSE Append(d, [key |-> k, value |-> v])

(***************************************************************************)
(* The opcode tables (dataclass fields of Assembler)                       *)
(***************************************************************************)

mot ==
    (<<"S","T","O","P">> :> <<"0","0">>) @@ (<<"A","D","D">> :> <<"0","1">>) @@
    (<<"S","U","B">> :> <<"0","2">>) @@ (<<"M","U","L","T">> :> <<"0","3">>) @@
    (<<"M","O","V","E","R">> :> <<"0","4">>) @@ (<<"M","O","V","E","M">> :> <<"0","5">>) @@
    (<<"C","O","M","P">> :> <<"0","6">>) @@ (<<"B","C">> :> <<"0","7">>) @@
    (<<"D","I","V">> :> <<"0","8">>) @@ (<<"R","E","A","D">> :> <<"0","9">>) @@
    (<<"P","R","I","N","T">> :> <<"1","0">>)

pot ==
    (<<"S","T","A","R","T">> :> <<"0","1">>) @@ (<<"E","N","D">> :> <<"0","2">>) @@
    (<<"O","R","I","G","I","N">> :> <<"0","3">>) @@ (<<"E","Q","U">> :> <<"0","4">>) @@
    (<<"L","T","O","R","G">> :> <<"0","5">>)

dl == (<<"D","C">> :> <<"0","1">>) @@ (<<"D","S">> :> <<"0","2">>)

registers ==
    (<<"A","R","E","G">> :> <<"0","1">>) @@ (<<"B","R","E","G">> :> <<"0","2">>) @@
    (<<"C","R","E","G">> :> <<"0","3">>) @@ (<<"D","R","E","G">> :> <<"0","4">>)

\* table.get(k, '')
GetOrEmpty(table, k) == IF k \in DOMAIN table THEN table[k] ELSE <<>>

\* "(" cls "," code ")", the class/code tag of an intermediate record
Tag(cls, code) == <<"(">> \o cls \o <<",">> \o code \o <<")">>

(***************************************************************************)
(* Assembler methods, as functions of the fields they read                 *)
(***************************************************************************)

\* The pieces of process_label: the statement split at ":", each piece stripped.
LabelPieces(statement) ==
    LET pieces == SplitOn(statement, ":")
    IN  [i \in 1..Len(pieces) |-> Strip(pieces[i], Whitespace)]

\* process_label, its effect: a "label: rest" statement binds label to the address.
process_label(symtab, addr, statement) ==
    IF Len(LabelPieces(statement)) > 1
    THEN SetItem(symtab, LabelPieces(statement)[1], Str(addr))
    ELSE symtab

\* process_label, its result: what follows the label.
LabelRest(statement) ==
    IF Len(LabelPieces(statement)) > 1 THEN LabelPieces(statement)[2] ELSE statement

\* add_literal: returns the tables and the 1-based index of the literal.
add_literal(littab, dups, literal) ==
    IF HasKey(littab, literal)
    THEN LET stripped_literal == Strip(literal, {"'"})
             lt == SetItem(littab, stripped_literal, <<>>)
         IN  [literal_table |-> lt,
              duplicate_literals |-> SetItem(dups, literal, stripped_literal),
              index |-> KeyIndex(lt, stripped_literal)]
    ELSE LET lt == SetItem(littab, literal, <<>>)
         IN  [literal_table |-> lt, duplicate_literals |-> dups, index |-> Len(lt)]

\* The loop of evaluate_expression: each symbol that occurs in expr and has a
\* value is replaced, in table order, in the text modified so far.
RECURSIVE Substitute(_, _, _, _)
Substitute(symtab, expr, modified_expr, i) ==
    IF i > Len(symtab) THEN modified_expr
    ELSE IF Contains(symtab[i].key, expr) /\ symtab[i].value # <<>>
         THEN Substitute(symtab, expr,
                         Replace(modified_expr, symtab[i].key, symtab[i].value), i + 1)
         ELSE Substitute(symtab, expr, modified_expr, i + 1)

\* evaluate_expression: [ok |-> TRUE, value |-> n] where it returns n,
\* [ok |-> FALSE, value |-> 0] where it raises ValueError.
evaluate_expression(symtab, expr) ==
    LET raised == [ok |-> FALSE, value |-> 0]
        modified_expr == Substitute(symtab, expr, expr, 1)
        parts == Split(modified_expr)
    IN  IF IsInt(expr) THEN [ok |-> TRUE, value |-> IntOf(expr)]
        ELSE IF Len(parts) = 3 /\ parts[2] \in {<<"+">>, <<"-">>}
             THEN IF IsInt(parts[1]) /\ IsInt(parts[3])
                  THEN [ok |-> TRUE,
                        value |-> IF parts[2] = <<"+">>
                                  THEN IntOf(parts[1]) + IntOf(parts[3])
                                  ELSE IntOf(parts[1]) - IntOf(parts[3])]
                  ELSE raised
             ELSE IF IsInt(modified_expr)
                  THEN [ok |-> TRUE, value |-> IntOf(modified_expr)]
                  ELSE raised

\* The fixed text of the messages.
UnableToEvaluate ==
    <<"U","n","a","b","l","e"," ","t","o"," ","e","v","a","l","u","a","t","e",
      " ","e","x","p","r","e","s","s","i","o","n",":"," ">>

InvalidLiteral ==
    <<"i","n","v","a","l","i","d"," ","l","i","t","e","r","a","l"," ","f","o",
      "r"," ","i","n","t","(",")"," ","w","i","t","h"," ","b","a","s","e"," ",
      "1","0",":"," ">>

OriginError ==
    <<"E","r","r","o","r"," ","e","v","a","l","u","a","t","i","n","g"," ","O",
      "R","I","G","I","N"," ","e","x","p","r","e","s","s","i","o","n",":"," ">>

EquError ==
    <<"E","r","r","o","r"," ","e","v","a","l","u","a","t","i","n","g"," ","E",
      "Q","U"," ","e","x","p","r","e","s","s","i","o","n",":"," ">>

\* repr(s) of a str without backslashes or control characters: in single
\* quotes, in double quotes when s holds a single quote and no double quote.
Repr(s) ==
    LET cs == {s[i] : i \in 1..Len(s)}
    IN  IF "'" \in cs /\ "\"" \notin cs THEN <<"\"">> \o s \o <<"\"">>
        ELSE <<"'">> \o s \o <<"'">>

\* str(e) of the ValueError evaluate_expression raises, where it raises: its
\* own for a "left op right" whose int() fails, int()'s for any other text.
ExceptionText(symtab, expr) ==
    LET modified_expr == Substitute(symtab, expr, expr, 1)
        parts == Split(modified_expr)
    IN  IF Len(parts) = 3 /\ parts[2] \in {<<"+">>, <<"-">>}
        THEN UnableToEvaluate \o expr
        ELSE InvalidLiteral \o Repr(modified_expr)

\* The loop of allocate_literals over literal_table.items(), from entry i on.
\* min_index starts above every index, as float('inf') does.
RECURSIVE AllocateLoop(_, _, _, _, _, _)
AllocateLoop(littab, addr, end_value, i, output_lines, min_index) ==
    IF i > Len(littab)
    THEN [literal_table |-> littab, address |-> addr,
          output_lines |-> output_lines, min_index |-> min_index]
    ELSE IF littab[i].value = <<>>
         THEN LET lit_value == ZFill(Strip(littab[i].key, {"'", "="}), 3)
                  line == Str(addr) \o <<" ">> \o Tag(<<"A","D">>, end_value)
                              \o <<" ", "-", " ">> \o lit_value
              IN  AllocateLoop(SetItem(littab, littab[i].key, Str(addr)), addr + 1,
                               end_value, i + 1, Append(output_lines, line),
                               IF i < min_index THEN i ELSE min_index)
         ELSE AllocateLoop(littab, addr, end_value, i + 1, output_lines, min_index)

\* An allocate_literals without the "if output_lines" test: every flush of a
\* table that is not empty adds a pool boundary.
AllocateAlwaysAppendsPool(littab, pool, addr, end_value) ==
    LET r == AllocateLoop(littab, addr, end_value, 1, <<>>, Len(littab) + 1)
    IN  IF littab = <<>>
        THEN [output |-> <<>>, address |-> addr, literal_table |-> littab,
              pool_table |-> pool]
        ELSE [output |-> Join(r.output_lines, <<"\n">>), address |-> r.address,
              literal_table |-> r.literal_table,
              pool_table |-> Append(pool, r.min_index)]

\* An allocate_literals that records the last index it allocated, not the first.
AllocateRecordsLastIndex(littab, pool, addr, end_value) ==
    LET r == AllocateLoop(littab, addr, end_value, 1, <<>>, Len(littab) + 1)
    IN  IF littab = <<>>
        THEN [output |-> <<>>, address |-> addr, literal_table |-> littab,
              pool_table |-> pool]
        ELSE [output |-> Join(r.output_lines, <<"\n">>), address |-> r.address,
              literal_table |-> r.literal_table,
              pool_table |-> IF r.output_lines # <<>>
                             THEN Append(pool, MaxOf({i \in 1..Len(littab) :
                                                         littab[i].value = <<>>}))
                             ELSE pool]

\* allocate_literals: every entry without an address gets the next one.
allocate_literals(littab, pool, addr, end_value) ==
    LET r == AllocateLoop(littab, addr, end_value, 1, <<>>, Len(littab) + 1)
    IN  IF littab = <<>>
        THEN [output |-> <<>>, address |-> addr, literal_table |-> littab,
              pool_table |-> pool]
        ELSE [output |-> Join(r.output_lines, <<"\n">>), address |-> r.address,
              literal_table |-> r.literal_table,
              pool_table |-> IF r.output_lines # <<>>
                             THEN Append(pool, r.min_index) ELSE pool]

\* handle_declaration, where it returns (a DS operand that is no integer, or a
\* token count other than 2 or 3, raises and ends the run).
DeclarationReturns(parts) ==
    /\ Len(parts) \in {2, 3}
    /\ parts[Len(parts) - 1] \in DOMAIN dl
    /\ LET value == parts[Len(parts)]
       IN  \/ "=" \in {value[i] : i \in 1..Len(value)}
           \/ dl[parts[Len(parts) - 1]] = <<"0","1">>
           \/ IsInt(value)

\* A size that takes every declaration for one cell.
DeclaredSizeOneCell(dl_code, value) == 1

\* The cells a declaration without a literal takes: 1 for DC, N for DS N.
DeclaredSize(dl_code, value) == IF dl_code = <<"0","1">> THEN 1 ELSE IntOf(value)

\* A handle_declaration that binds the symbol after moving the counter: the
\* symbol gets the address behind its storage.
DeclarationBindsAfter(symtab, littab, dups, addr, parts) ==
    LET mnemonic == parts[Len(parts) - 1]
        value    == parts[Len(parts)]
        dl_code  == dl[mnemonic]
        lit      == add_literal(littab, dups, value)
        literal  == "=" \in {value[i] : i \in 1..Len(value)}
        size     == IF literal THEN 1 ELSE DeclaredSize(dl_code, value)
        st       == IF Len(parts) = 3
                    THEN SetItem(symtab, parts[1], Str(addr + size)) ELSE symtab
    IN  IF literal
        THEN [symbol_table |-> st, literal_table |-> lit.literal_table,
              duplicate_literals |-> lit.duplicate_literals, address |-> addr + 1,
              statement |-> Join(parts, <<" ">>),
              output |-> Str(addr) \o <<" ">> \o Tag(<<"D","L">>, dl_code)
                             \o <<" ", "-", " ">> \o Tag(<<"L">>, Str(lit.index))]
        ELSE [symbol_table |-> st, literal_table |-> littab,
              duplicate_literals |-> dups, address |-> addr + size,
              statement |-> Join(parts, <<" ">>),
              output |-> Str(addr) \o <<" ">> \o Tag(<<"D","L">>, dl_code)
                             \o <<" ", "-", " ">> \o ZFill(value, 3)]

handle_declaration(symtab, littab, dups, addr, parts) ==
    LET mnemonic == parts[Len(parts) - 1]
        value    == parts[Len(parts)]
        st       == IF Len(parts) = 3 THEN SetItem(symtab, parts[1], Str(addr)) ELSE symtab
        dl_code  == dl[mnemonic]
        lit      == add_literal(littab, dups, value)
        size     == DeclaredSize(dl_code, value)
    IN  IF "=" \in {value[i] : i \in 1..Len(value)}
        THEN [symbol_table |-> st, literal_table |-> lit.literal_table,
              duplicate_literals |-> lit.duplicate_literals, address |-> addr + 1,
              statement |-> Join(parts, <<" ">>),
              output |-> Str(addr) \o <<" ">> \o Tag(<<"D","L">>, dl_code)
                             \o <<" ", "-", " ">> \o Tag(<<"L">>, Str(lit.index))]
        ELSE [symbol_table |-> st, literal_table |-> littab,
              duplicate_literals |-> dups, address |-> addr + size,
              statement |-> Join(parts, <<" ">>),
              output |-> Str(addr) \o <<" ">> \o Tag(<<"D","L">>, dl_code)
                             \o <<" ", "-", " ">> \o ZFill(value, 3)]

\* handle_regular_instruction, where it returns (a lone mnemonic other than
\* STOP raises IndexError and ends the run).
InstructionReturns(parts) ==
    \/ parts = <<<<"S","T","O","P">>>>
    \/ Len(parts) = 2
    \/ Len(parts) > 2

\* The symbol-operand branch: the target is registered, if new, without an address.
RegisterSymbol(symtab, target) ==
    IF HasKey(symtab, target) THEN symtab ELSE SetItem(symtab, target, <<>>)

handle_regular_instruction(symtab, littab, dups, addr, parts0, original_statement) ==
    LET prefixed == Len(parts0) > 2 /\ parts0[2] \in DOMAIN mot
        st0      == IF prefixed THEN SetItem(symtab, parts0[1], Str(addr)) ELSE symtab
        parts    == IF prefixed THEN Tail(parts0) ELSE parts0
        mot_code == GetOrEmpty(mot, parts[1])
        head     == Str(addr) \o <<" ">> \o Tag(<<"I","S">>, mot_code) \o <<" ">>
        same     == [symbol_table |-> symtab, literal_table |-> littab,
                     duplicate_literals |-> dups, address |-> addr + 1,
                     statement |-> original_statement, output |-> <<>>]
    IN  IF parts0 = <<<<"S","T","O","P">>>>
        THEN [same EXCEPT !.output = head \o <<"-", " ", "-">>]
        ELSE IF Len(parts) = 2
        THEN LET st == RegisterSymbol(st0, parts[2])
             IN  [same EXCEPT !.symbol_table = st,
                              !.output = head \o <<"-", " ">>
                                  \o Tag(<<"S">>, Str(KeyIndex(st, parts[2])))]
        ELSE LET reg    == GetOrEmpty(registers, Strip(parts[2], {","}))
                 target == parts[3]
                 lit    == add_literal(littab, dups, target)
                 st     == RegisterSymbol(st0, target)
             IN  IF "=" \in {target[i] : i \in 1..Len(target)}
                 THEN [same EXCEPT !.symbol_table = st0,
                                   !.literal_table = lit.literal_table,
                                   !.duplicate_literals = lit.duplicate_literals,
                                   !.output = head \o reg \o <<" ">>
                                       \o Tag(<<"L">>, Str(lit.index))]
                 ELSE [same EXCEPT !.symbol_table = st,
                                   !.output = head \o reg \o <<" ">>
                                       \o Tag(<<"S">>, Str(KeyIndex(st, target)))]

\* The generator of pass2's "cleaned" text: the code of a class/code tag, any
\* other token without its parentheses.
Cleaned(intermediate) ==
    LET parts == Split(intermediate)
    IN  Join([i \in 1..Len(parts) |->
                 IF "," \in {parts[i][j] : j \in 1..Len(parts[i])}
                 THEN Strip(SplitOn(parts[i], ",")[2], {"(", ")"})
                 ELSE Strip(parts[i], {"(", ")"})], <<" ">>)

\* Whether a record holds a table reference that pass2 looks up.
HasReference(intermediate) ==
    /\ \/ Contains(<<"(", "S", ",">>, intermediate)
       \/ Contains(<<"(", "L", ",">>, intermediate)
    /\ Len(Split(intermediate)) >= 4

\* Whether the body of pass2's loop returns for this record: the fourth token
\* unpacks into a table type and an index that the table has.
ResolveReturns(symtab, littab, intermediate) ==
    HasReference(intermediate) =>
        LET ref == SplitOn(Strip(Split(intermediate)[4], {"(", ")"}), ",")
        IN  /\ Len(ref) = 2
            /\ Len(SplitOn(Split(intermediate)[2], ",")) >= 2
            /\ IsInt(ref[2])
            /\ IntOf(ref[2]) \in 1..Len(IF ref[1] = <<"S">> THEN symtab ELSE littab)

\* The body of pass2's loop: the machine code of one intermediate record.
Resolve(symtab, littab, intermediate) ==
    LET parts == Split(intermediate)
        lc    == IF parts # <<>> THEN parts[1] ELSE <<>>
        ref   == SplitOn(Strip(parts[4], {"(", ")"}), ",")
        index == IntOf(ref[2])
        addr  == IF ref[1] = <<"S">> THEN symtab[index].value ELSE littab[index].value
    IN  IF intermediate = <<>> THEN <<>>
        ELSE IF HasReference(intermediate)
        THEN lc \o <<" ">> \o Strip(SplitOn(parts[2], ",")[2], {")"}) \o <<" ">>
                \o Strip(parts[3], {"(", ")"}) \o <<" ">> \o addr
        ELSE Cleaned(intermediate)

\* A pass2 whose "continue" for an empty record comes before the append.
Pass2SkipsEmpty(symtab, littab, pass1_out) ==
    LET kept == SelectSeq(pass1_out, LAMBDA r : r.intermediate # <<>>)
    IN  [i \in 1..Len(kept) |->
            [statement |-> kept[i].statement,
             code |-> Resolve(symtab, littab, kept[i].intermediate)]]

\* pass2: one (statement, machine code) pair per pair of pass1, in order.
pass2(symtab, littab, pass1_out) ==
    [i \in 1..Len(pass1_out) |->
        [statement |-> pass1_out[i].statement,
         code |-> Resolve(symtab, littab, pass1_out[i].intermediate)]]

(***************************************************************************)
(* The run: run_assembler calls pass1 on the source, then pass2             *)
(***************************************************************************)

VARIABLES
    address,             \* self.address, the location counter
    symbol_table,        \* self.symbol_table
    literal_table,       \* self.literal_table
    duplicate_literals,  \* self.duplicate_literals
    pool_table,          \* self.pool_table
    source,              \* the lines of assembly_code pass1 has gone through
    pass1_output,        \* the list pass1 builds
    machine_code,        \* the list pass2 returns
    reports,             \* the lines printed so far (the prints of parse_instruction)
    pc                   \* "pass1" while pass1 runs, "done" once pass2 returned

vars == <<address, symbol_table, literal_table, duplicate_literals, pool_table,
          source, pass1_output, machine_code, reports, pc>>

\* The source lines of the runs explored.
Statements ==
    { <<>>,
      <<"S","T","A","R","T"," ","1","0","0">>,
      <<"E","N","D">>,
      <<"L","T","O","R","G">>,
      <<"O","R","I","G","I","N"," ","A"," ","+"," ","1">>,
      <<"A","B"," ","E","Q","U"," ","A"," ","+"," ","1">>,
      <<"A"," ","D","S"," ","2">>,
      <<"A","B"," ","D","C"," ","'","=","5","'">>,
      <<"M","O","V","E","R"," ","A","R","E","G",","," ","A">>,
      <<"M","O","V","E","R"," ","A","R","E","G",","," ","'","=","5","'">>,
      <<"P","R","I","N","T"," ","A","B">>,
      <<"B","C"," ","A","N","Y",","," ","A","B">>,
      <<"A","B",":">>,
      <<"A"," ","A","D","D"," ","B","R","E","G",","," ","A","B">>,
      <<"S","T","O","P">> }

\* The source lines of the runs that only intern and flush literals.
PoolStatements ==
    { <<"M","O","V","E","R"," ","A","R","E","G",","," ","'","=","5","'">>,
      <<"A","B"," ","D","C"," ","'","=","1","9","'">>,
      <<"L","T","O","R","G">>,
      <<"E","N","D">> }

\* The program of __main__, line by line.
DemoProgram ==
    << <<"S","T","A","R","T"," ","1","0","0">>,
       <<"A"," ","D","S"," ","3">>,
       <<"L","1",":"," ","M","O","V","E","R"," ","A","R","E","G",","," ","B">>,
       <<"A","D","D"," ","A","R","E","G",","," ","C">>,
       <<"M","O","V","E","M"," ","A","R","E","G",","," ","D">>,
       <<"D"," ","E","Q","U"," ","A"," ","+"," ","1">>,
       <<"L","2",":"," ","P","R","I","N","T"," ","D">>,
       <<"O","R","I","G","I","N"," ","A"," ","-"," ","1">>,
       <<"C"," "," ","D","C"," ","'","=","5","'">>,
       <<"O","R","I","G","I","N"," ","L","2"," ","+"," ","1">>,
       <<"S","T","O","P">>,
       <<"B"," ","D","C"," ","'","=","1","9","'">>,
       <<"E","N","D">> >>

DemoLines == {DemoProgram[i] : i \in 1..Len(DemoProgram)}

Init ==
    /\ address = 0
    /\ symbol_table = <<>>
    /\ literal_table = <<>>
    /\ duplicate_literals = <<>>
    /\ pool_table = <<>>
    /\ source = <<>>
    /\ pass1_output = <<>>
    /\ machine_code = <<>>
    /\ reports = <<>>
    /\ pc = "pass1"

\* The statement parse_instruction is called with: the line, stripped.
Stripped(line) == Strip(line, Whitespace)

\* The first line of parse_instruction's work: the label is bound.
Labelled(line) == process_label(symbol_table, address, Stripped(line))

\* The second: what follows the label is split at commas and blanks.
SplitStatement(line) == Split(Replace(LabelRest(Stripped(line)), <<",">>, <<" ">>))

\* SplitStatement, computed once for each line of the programs explored.
StatementParts ==
    [line \in Statements \cup PoolStatements \cup DemoLines |-> SplitStatement(line)]

Parts(line) == StatementParts[line]

\* The branch of parse_instruction a statement takes: the first test that matches.
StatementClass(parts) ==
    IF parts = <<>> THEN "empty"
    ELSE IF Contains(<<"S","T","A","R","T">>, parts[1]) THEN "START"
    ELSE IF parts[1] = <<"E","N","D">> THEN "END"
    ELSE IF parts[1] = <<"L","T","O","R","G">> THEN "LTORG"
    ELSE IF parts[1] = <<"O","R","I","G","I","N">> THEN "ORIGIN"
    ELSE IF Len(parts) > 1 /\ parts[2] = <<"E","Q","U">> THEN "EQU"
    ELSE IF parts[1] \in DOMAIN dl \/ (Len(parts) > 1 /\ parts[2] \in DOMAIN dl)
         THEN "declaration"
    ELSE "instruction"

\* pass1 takes the next line of the source.
Reads(line) ==
    /\ pc = "pass1"
    /\ source' = Append(source, line)
    /\ UNCHANGED <<machine_code, pc>>

Emits(statement, intermediate) ==
    pass1_output' = Append(pass1_output,
                           [statement |-> statement, intermediate |-> intermediate])

\* pass1's filter: a line that is blank once stripped is not parsed.
SkipBlankLine(line) ==
    /\ Reads(line)
    /\ Stripped(line) = <<>>
    /\ UNCHANGED <<address, symbol_table, literal_table, duplicate_literals,
                   pool_table, pass1_output, reports>>

\* parse_instruction, nothing after the label
ParseEmpty(line) ==
    /\ Reads(line)
    /\ Stripped(line) # <<>>
    /\ StatementClass(Parts(line)) = "empty"
    /\ symbol_table' = Labelled(line)
    /\ Emits(Stripped(line), <<>>)
    /\ UNCHANGED <<address, literal_table, duplicate_literals, pool_table, reports>>

\* parse_instruction, START
ParseStart(line) ==
    /\ Reads(line)
    /\ Stripped(line) # <<>>
    /\ StatementClass(Parts(line)) = "START"
    /\ Len(Parts(line)) >= 2 /\ IsInt(Parts(line)[2])
    /\ address' = IntOf(Parts(line)[2])
    /\ symbol_table' = Labelled(line)
    /\ Emits(Stripped(line),
             Tag(<<"A","D">>, pot[<<"S","T","A","R","T">>]) \o <<" ", "-", " ">>
                 \o <<"(", "C", ",", " ">> \o Str(address') \o <<")">>)
    /\ UNCHANGED <<literal_table, duplicate_literals, pool_table, reports>>

\* parse_instruction, END
ParseEnd(line) ==
    /\ Reads(line)
    /\ Stripped(line) # <<>>
    /\ StatementClass(Parts(line)) = "END"
    /\ LET r == allocate_literals(literal_table, pool_table, address,
                                  pot[<<"E","N","D">>])
       IN  /\ address' = r.address
           /\ literal_table' = r.literal_table
           /\ pool_table' = r.pool_table
           /\ Emits(Stripped(line),
                    IF r.output # <<>> THEN r.output
                    ELSE Str(r.address) \o <<" ">>
                             \o Tag(<<"A","D">>, pot[<<"E","N","D">>])
                             \o <<" ", "-", " ", "-">>)
    /\ symbol_table' = Labelled(line)
    /\ UNCHANGED <<duplicate_literals, reports>>

\* parse_instruction, LTORG
ParseLtorg(line) ==
    /\ Reads(line)
    /\ Stripped(line) # <<>>
    /\ StatementClass(Parts(line)) = "LTORG"
    /\ LET r == allocate_literals(literal_table, pool_table, address,
                                  pot[<<"L","T","O","R","G">>])
       IN  /\ address' = r.address
           /\ literal_table' = r.literal_table
           /\ pool_table' = r.pool_table
           /\ Emits(Stripped(line), r.output)
    /\ symbol_table' = Labelled(line)
    /\ UNCHANGED <<duplicate_literals, reports>>

\* An ORIGIN whose except branch clears the counter instead of keeping it.
ParseOriginFailureResets(line) ==
    /\ Reads(line)
    /\ Stripped(line) # <<>>
    /\ StatementClass(Parts(line)) = "ORIGIN"
    /\ LET r == evaluate_expression(Labelled(line),
                                    Join(Tail(Parts(line)), <<" ">>))
       IN  /\ address' = IF r.ok THEN r.value ELSE 0
           /\ reports' = IF r.ok THEN reports
                         ELSE Append(reports,
                                     OriginError \o ExceptionText(Labelled(line),
                                         Join(Tail(Parts(line)), <<" ">>)))
    /\ symbol_table' = Labelled(line)
    /\ Emits(Stripped(line), <<>>)
    /\ UNCHANGED <<literal_table, duplicate_literals, pool_table>>

\* parse_instruction, ORIGIN: a ValueError is caught and the counter kept.
ParseOrigin(line) ==
    /\ Reads(line)
    /\ Stripped(line) # <<>>
    /\ StatementClass(Parts(line)) = "ORIGIN"
    /\ LET r == evaluate_expression(Labelled(line),
                                    Join(Tail(Parts(line)), <<" ">>))
       IN  /\ address' = IF r.ok THEN r.value ELSE address
           /\ reports' = IF r.ok THEN reports
                         ELSE Append(reports,
                                     OriginError \o ExceptionText(Labelled(line),
                                         Join(Tail(Parts(line)), <<" ">>)))
    /\ symbol_table' = Labelled(line)
    /\ Emits(Stripped(line), <<>>)
    /\ UNCHANGED <<literal_table, duplicate_literals, pool_table>>

\* An EQU that binds its symbol as a label is bound, to the location counter.
ParseEquBindsCounter(line) ==
    /\ Reads(line)
    /\ Stripped(line) # <<>>
    /\ StatementClass(Parts(line)) = "EQU"
    /\ LET r == evaluate_expression(Labelled(line),
                                    Join(SubSeq(Parts(line), 3, Len(Parts(line))), <<" ">>))
       IN  /\ symbol_table' = IF r.ok
                              THEN SetItem(Labelled(line), Parts(line)[1],
                                           Str(address))
                              ELSE Labelled(line)
           /\ reports' = IF r.ok THEN reports
                         ELSE Append(reports,
                                     EquError \o ExceptionText(Labelled(line),
                                         Join(SubSeq(Parts(line), 3, Len(Parts(line))),
                                              <<" ">>)))
    /\ Emits(Stripped(line), <<>>)
    /\ UNCHANGED <<address, literal_table, duplicate_literals, pool_table>>

\* parse_instruction, EQU: a ValueError is caught and the symbol not bound.
ParseEqu(line) ==
    /\ Reads(line)
    /\ Stripped(line) # <<>>
    /\ StatementClass(Parts(line)) = "EQU"
    /\ LET r == evaluate_expression(Labelled(line),
                                    Join(SubSeq(Parts(line), 3, Len(Parts(line))), <<" ">>))
       IN  /\ symbol_table' = IF r.ok
                              THEN SetItem(Labelled(line), Parts(line)[1],
                                           Str(r.value))
                              ELSE Labelled(line)
           /\ reports' = IF r.ok THEN reports
                         ELSE Append(reports,
                                     EquError \o ExceptionText(Labelled(line),
                                         Join(SubSeq(Parts(line), 3, Len(Parts(line))),
                                              <<" ">>)))
    /\ Emits(Stripped(line), <<>>)
    /\ UNCHANGED <<address, literal_table, duplicate_literals, pool_table>>

\* parse_instruction, DC and DS
ParseDeclaration(line) ==
    /\ Reads(line)
    /\ Stripped(line) # <<>>
    /\ StatementClass(Parts(line)) = "declaration"
    /\ DeclarationReturns(Parts(line))
    /\ LET r == handle_declaration(Labelled(line), literal_table,
                                   duplicate_literals, address, Parts(line))
       IN  /\ address' = r.address
           /\ symbol_table' = r.symbol_table
           /\ literal_table' = r.literal_table
           /\ duplicate_literals' = r.duplicate_literals
           /\ Emits(r.statement, r.output)
    /\ UNCHANGED <<pool_table, reports>>

\* parse_instruction, every other statement
ParseInstruction(line) ==
    /\ Reads(line)
    /\ Stripped(line) # <<>>
    /\ StatementClass(Parts(line)) = "instruction"
    /\ InstructionReturns(Parts(line))
    /\ LET r == handle_regular_instruction(Labelled(line), literal_table,
                                           duplicate_literals, address, Parts(line),
                                           Stripped(line))
       IN  /\ address' = r.address
           /\ symbol_table' = r.symbol_table
           /\ literal_table' = r.literal_table
           /\ duplicate_literals' = r.duplicate_literals
           /\ Emits(r.statement, r.output)
    /\ UNCHANGED <<pool_table, reports>>

\* A pass2 that walks the records with the location counter, from 0 again.
Pass2ResetsCounter ==
    /\ pc = "pass1"
    /\ \A i \in 1..Len(pass1_output) :
           ResolveReturns(symbol_table, literal_table, pass1_output[i].intermediate)
    /\ machine_code' = pass2(symbol_table, literal_table, pass1_output)
    /\ pc' = "done"
    /\ address' = 0
    /\ UNCHANGED <<symbol_table, literal_table, duplicate_literals,
                   pool_table, source, pass1_output, reports>>

\* run_assembler: the source is used up, pass2 runs on what pass1 returned.
Pass2 ==
    /\ pc = "pass1"
    /\ \A i \in 1..Len(pass1_output) :
           ResolveReturns(symbol_table, literal_table, pass1_output[i].intermediate)
    /\ machine_code' = pass2(symbol_table, literal_table, pass1_output)
    /\ pc' = "done"
    /\ UNCHANGED <<address, symbol_table, literal_table, duplicate_literals,
                   pool_table, source, pass1_output, reports>>

\* The lines a run may go on with: any statement, up to MaxLines lines.
NextLines == IF Len(source) < MaxLines THEN Statements ELSE {}

Next ==
    \/ \E line \in NextLines : SkipBlankLine(line)
    \/ \E line \in NextLines : ParseEmpty(line)
    \/ \E line \in NextLines : ParseStart(line)
    \/ \E line \in NextLines : ParseEnd(line)
    \/ \E line \in NextLines : ParseLtorg(line)
    \/ \E line \in NextLines : ParseOrigin(line)
    \/ \E line \in NextLines : ParseEqu(line)
    \/ \E line \in NextLines : ParseDeclaration(line)
    \/ \E line \in NextLines : ParseInstruction(line)
    \/ Pass2

Spec == Init /\ [][Next]_vars

(***************************************************************************)
(* Longer runs, of statements that intern literals and of flushes          *)
(***************************************************************************)

\* The lines such a run may go on with, up to MaxPoolLines lines; END, where
\* the program has it, is its last line.
PoolNextLines ==
    IF Len(source) < MaxPoolLines
           /\ \A i \in 1..Len(source) : source[i] # <<"E","N","D">>
    THEN PoolStatements ELSE {}

PoolNext ==
    \/ \E line \in PoolNextLines : ParseEnd(line)
    \/ \E line \in PoolNextLines : ParseLtorg(line)
    \/ \E line \in PoolNextLines : ParseDeclaration(line)
    \/ \E line \in PoolNextLines : ParseInstruction(line)
    \/ Pass2

PoolSpec == Init /\ [][PoolNext]_vars

(***************************************************************************)
(* The run of __main__: run_assembler on the demonstration program, and on *)
(* the programs left when lines of it are taken out                        *)
(***************************************************************************)

\* The place in DemoProgram of the last line taken, 0 before the first.
DemoPlace ==
    IF source = <<>> THEN 0
    ELSE CHOOSE i \in 1..Len(DemoProgram) : DemoProgram[i] = source[Len(source)]

\* The lines a run of the demonstration program may go on with.
DemoRest == {DemoProgram[i] : i \in (DemoPlace + 1)..Len(DemoProgram)}

DemoNext ==
    \/ \E line \in DemoRest : ParseStart(line)
    \/ \E line \in DemoRest : ParseEnd(line)
    \/ \E line \in DemoRest : ParseOrigin(line)
    \/ \E line \in DemoRest : ParseEqu(line)
    \/ \E line \in DemoRest : ParseDeclaration(line)
    \/ \E line \in DemoRest : ParseInstruction(line)
    \/ Pass2

DemoSpec == Init /\ [][DemoNext]_vars

(***************************************************************************)
(* Vocabulary of the properties                                            *)
(***************************************************************************)

\* The lines pass1 parsed, stripped, in source order: Lines[i] is the statement
\* behind pass1_output[i].
Lines == SelectSeq([i \in 1..Len(source) |-> Stripped(source[i])], LAMBDA l : l # <<>>)

PartsOf(statement) ==
    IF statement \in DOMAIN StatementParts THEN Parts(statement)
    ELSE SplitStatement(statement)

ClassOf(statement) == StatementClass(PartsOf(statement))

IsLiteralText(token) == "=" \in {token[i] : i \in 1..Len(token)}

\* An instruction with a symbol prefix: "sym MNEMONIC ...".
HasInstructionPrefix(statement) ==
    /\ ClassOf(statement) = "instruction"
    /\ Len(PartsOf(statement)) > 2
    /\ PartsOf(statement)[2] \in DOMAIN mot

\* The tokens of an instruction from its mnemonic on.
InstructionParts(statement) ==
    IF HasInstructionPrefix(statement) THEN Tail(PartsOf(statement))
    ELSE PartsOf(statement)

\* The statement is an instruction with an operand (every one but STOP).
HasOperand(statement) ==
    /\ ClassOf(statement) = "instruction"
    /\ Len(InstructionParts(statement)) >= 2

Operand(statement) ==
    IF Len(InstructionParts(statement)) = 2 THEN InstructionParts(statement)[2]
    ELSE InstructionParts(statement)[3]

\* The statement uses symbol sym as its operand.
References(statement, sym) ==
    HasOperand(statement) /\ ~IsLiteralText(Operand(statement)) /\ Operand(statement) = sym

\* The statement defines sym: by "sym:", as the prefix of a declaration or as
\* the prefix of an instruction.
Defines(statement, sym) ==
    \/ Len(LabelPieces(statement)) > 1 /\ LabelPieces(statement)[1] = sym
    \/ /\ ClassOf(statement) = "declaration"
       /\ Len(PartsOf(statement)) = 3
       /\ PartsOf(statement)[1] = sym
    \/ HasInstructionPrefix(statement) /\ PartsOf(statement)[1] = sym

\* The symbols a run can name.
Symbols == {<<"A">>, <<"A","B">>}

\* The table reference an intermediate record ends with, "(S,k)" or "(L,k)".
RefOf(intermediate) ==
    LET parts == Split(intermediate)
        ref   == SplitOn(Strip(parts[Len(parts)], {"(", ")"}), ",")
    IN  [table |-> ref[1], index |-> IntOf(ref[2])]

\* The last field of a machine-code record: in "lc opcode reg address", the address.
ResolvedAddress(code) ==
    LET fields == SplitOn(code, " ") IN fields[Len(fields)]

\* The line the step has just taken from the source.
LineRead == Stripped(source'[Len(source')])

ParsesLine == source' # source /\ LineRead # <<>>

(***************************************************************************)
(* C1. Forward-reference resolution: a symbol keeps the Symbol Table index *)
(* it got at its first reference; a definition binds it to the location    *)
(* counter of the defining line; every reference is recorded with the      *)
(* symbol's index and is resolved by pass2 to the address the symbol is    *)
(* bound to, so a reference made before the definition gets the address    *)
(* of the later definition.                                                *)
(***************************************************************************)
C1_ReferencesKeepIndex ==
    \A i \in 1..Len(pass1_output) : \A sym \in Symbols :
        References(Lines[i], sym) =>
            /\ RefOf(pass1_output[i].intermediate).table = <<"S">>
            /\ RefOf(pass1_output[i].intermediate).index \in 1..Len(symbol_table)
            /\ symbol_table[RefOf(pass1_output[i].intermediate).index].key = sym

\* Line i uses sym before any line defines it, and a later line defines it.
ForwardReference(i, sym) ==
    /\ References(Lines[i], sym)
    /\ \A h \in 1..i : ~Defines(Lines[h], sym)
    /\ \E j \in (i + 1)..Len(Lines) : Defines(Lines[j], sym)

C1_ReferencesResolved ==
    pc = "done" =>
        \A i \in 1..Len(pass1_output) : \A sym \in Symbols :
            ForwardReference(i, sym) =>
                ResolvedAddress(machine_code[i].code) = GetItem(symbol_table, sym)

C1_IndexStable ==
    \A k \in 1..Len(symbol_table) :
        Len(symbol_table') >= k /\ symbol_table'[k].key = symbol_table[k].key

C1_DefinitionBinds ==
    ParsesLine =>
        \A sym \in Symbols :
            Defines(LineRead, sym) =>
                HasKey(symbol_table', sym) /\ GetItem(symbol_table', sym) = Str(address)

\* C1: references keep their index and resolve to the address the definition bound.
C1_ForwardReference ==
    /\ [](C1_ReferencesKeepIndex /\ C1_ReferencesResolved)
    /\ [][C1_IndexStable /\ C1_DefinitionBinds]_vars

(***************************************************************************)
(* C2. Idempotence of literal interning: from every reachable Literal      *)
(* Table, add_literal called twice with the same literal text returns the  *)
(* same index both times, and the second call adds no entry.               *)
(***************************************************************************)
LiteralTexts == {<<"'","=","5","'">>, <<"=","5">>}

\* C2: interning a literal text twice gives one index and no new entry.
C2_InternIdempotent ==
    \A literal \in LiteralTexts :
        LET first  == add_literal(literal_table, duplicate_literals, literal)
            second == add_literal(first.literal_table, first.duplicate_literals, literal)
        IN  /\ second.index = first.index
            /\ Len(second.literal_table) = Len(first.literal_table)

(***************************************************************************)
(* C3. Duplicate literal scenario: after MOVER reg, '=5' twice and LTORG,  *)
(* the Literal Table holds one entry, with an address, and pass2 puts      *)
(* that address into both instructions.                                    *)
(***************************************************************************)
MoverLiteral == <<"M","O","V","E","R"," ","A","R","E","G",","," ","'","=","5","'">>

\* C3: two MOVER reg, '=5' and LTORG give one entry and one address in both records.
C3_DuplicateLiteralScenario ==
    (pc = "done" /\ Lines = <<MoverLiteral, MoverLiteral, <<"L","T","O","R","G">>>>) =>
        /\ Len(literal_table) = 1
        /\ literal_table[1].value # <<>>
        /\ ResolvedAddress(machine_code[1].code) = literal_table[1].value
        /\ ResolvedAddress(machine_code[2].code) = literal_table[1].value

(***************************************************************************)
(* C4. Unresolved-reference reporting: pass2 emits no resolved record      *)
(* with a blank address for a statement whose symbol operand was never     *)
(* defined.                                                                *)
(***************************************************************************)
C4_UnresolvedReported ==
    pc = "done" =>
        \A i \in 1..Len(machine_code) : \A sym \in Symbols :
            (References(Lines[i], sym) /\ GetItem(symbol_table, sym) = <<>>) =>
                ResolvedAddress(machine_code[i].code) # <<>>

(***************************************************************************)
(* C5. Pool completeness (addresses): when pass1 has finished a program    *)
(* that contains END, every Literal Table entry has an address.            *)
(***************************************************************************)
C5_EveryLiteralAddressed ==
    (pc = "done" /\ \E i \in 1..Len(Lines) : ClassOf(Lines[i]) = "END") =>
        \A k \in 1..Len(literal_table) : literal_table[k].value # <<>>

(***************************************************************************)
(* C6. Pool completeness (count): the Pool Table has one entry for each    *)
(* flush (LTORG, END) that found a literal without an address; a flush     *)
(* that finds none adds no entry, emits no literal record and leaves the   *)
(* location counter alone; no other statement touches the Pool Table.      *)
(***************************************************************************)
IsFlush(statement) == ClassOf(statement) \in {"LTORG", "END"}

Pending == \E k \in 1..Len(literal_table) : literal_table[k].value = <<>>

\* What END emits when no literal is pending.
BareEndRecord(addr) ==
    Str(addr) \o <<" ">> \o Tag(<<"A","D">>, pot[<<"E","N","D">>]) \o <<" ", "-", " ", "-">>

\* The record holds literal records: it is not empty and not the bare END record.
HoldsLiteralRecords(intermediate) ==
    intermediate # <<>> /\ Split(intermediate)[4] # <<"-">>

\* The flushes so far that emitted literal records.
FlushesThatAllocated ==
    {i \in 1..Len(pass1_output) :
        IsFlush(Lines[i]) /\ HoldsLiteralRecords(pass1_output[i].intermediate)}

C6_PoolCountInv == Len(pool_table) = Cardinality(FlushesThatAllocated)

C6_FlushStep ==
    ParsesLine =>
        /\ (IsFlush(LineRead) /\ Pending) =>
               /\ Len(pool_table') = Len(pool_table) + 1
               /\ HoldsLiteralRecords(pass1_output'[Len(pass1_output')].intermediate)
        /\ (IsFlush(LineRead) /\ ~Pending) =>
               /\ pool_table' = pool_table
               /\ address' = address
               /\ pass1_output'[Len(pass1_output')].intermediate
                      \in {<<>>, BareEndRecord(address)}
        /\ ~IsFlush(LineRead) => pool_table' = pool_table

\* C6: one Pool Table entry per flush that found a pending literal; an idle flush changes nothing.
C6_PoolCount == []C6_PoolCountInv /\ [][C6_FlushStep]_vars

\* A run with a flush that found a pending literal and one that found none.
C6_Witness ==
    /\ Len(pool_table) = 1
    /\ Cardinality({i \in 1..Len(Lines) : IsFlush(Lines[i])}) >= 2

(***************************************************************************)
(* C7. Address monotonicity: a statement other than ORIGIN and START       *)
(* never lowers the location counter, and advances it by its size:         *)
(* 1 for an instruction, 1 for DC, N for DS N, 0 for EQU and for a         *)
(* label alone.                                                            *)
(***************************************************************************)
DeclaredMnemonic(statement) == PartsOf(statement)[Len(PartsOf(statement)) - 1]

DeclaredValue(statement) == PartsOf(statement)[Len(PartsOf(statement))]

C7_Step ==
    (ParsesLine /\ ClassOf(LineRead) \notin {"ORIGIN", "START"}) =>
        /\ address' >= address
        /\ ClassOf(LineRead) = "instruction" => address' = address + 1
        /\ (ClassOf(LineRead) = "declaration"
                /\ DeclaredMnemonic(LineRead) = <<"D","C">>) => address' = address + 1
        /\ (ClassOf(LineRead) = "declaration"
                /\ DeclaredMnemonic(LineRead) = <<"D","S">>
                /\ IsInt(DeclaredValue(LineRead))) =>
               address' = address + IntOf(DeclaredValue(LineRead))
        /\ ClassOf(LineRead) \in {"EQU", "empty"} => address' = address

\* C7: outside ORIGIN and START the location counter advances by the statement's size.
C7_AddressMonotonic == [][C7_Step]_vars

\* A run without ORIGIN and START that went through DS 2, an instruction and
\* a statement of size 0.
C7_Witness ==
    /\ \A i \in 1..Len(Lines) : ClassOf(Lines[i]) \notin {"ORIGIN", "START"}
    /\ \E i \in 1..Len(Lines) :
           /\ ClassOf(Lines[i]) = "declaration"
           /\ DeclaredMnemonic(Lines[i]) = <<"D","S">>
    /\ \E i \in 1..Len(Lines) : ClassOf(Lines[i]) = "instruction"
    /\ \E i \in 1..Len(Lines) : ClassOf(Lines[i]) \in {"EQU", "empty"}
    /\ address = 3

(***************************************************************************)
(* C8. Positional correspondence: pass1 returns one pair for each          *)
(* non-blank source line, in source order; pass2 returns one pair for      *)
(* each pair of pass1, in the same order, an empty record for an empty     *)
(* record; the two lists have the same length.                             *)
(***************************************************************************)
C8_OneToOne ==
    /\ Len(pass1_output) = Len(Lines)
    /\ \A i \in 1..Len(pass1_output) :
           SplitStatement(pass1_output[i].statement) = PartsOf(Lines[i])
    /\ pc = "done" =>
           /\ Len(machine_code) = Len(pass1_output)
           /\ \A i \in 1..Len(pass1_output) :
                  /\ machine_code[i].statement = pass1_output[i].statement
                  /\ pass1_output[i].intermediate = <<>> => machine_code[i].code = <<>>

\* A finished run with a blank line, an empty record and a resolved one.
C8_Witness ==
    /\ pc = "done"
    /\ Len(source) > Len(Lines)
    /\ \E i \in 1..Len(pass1_output) : pass1_output[i].intermediate = <<>>
    /\ \E i \in 1..Len(pass1_output) : machine_code[i].code # <<>>

(***************************************************************************)
(* C9. Program end terminates the pass: once pass1 has parsed END, no      *)
(* step changes the location counter, the Symbol Table, the Literal Table  *)
(* or the Pool Table.                                                      *)
(***************************************************************************)
EndParsed == \E i \in 1..Len(Lines) : ClassOf(Lines[i]) = "END"

\* C9: after END no step changes the location counter or a table.
C9_EndTerminates ==
    [][EndParsed => UNCHANGED <<address, symbol_table, literal_table, pool_table>>]_vars

(***************************************************************************)
(* C10. Expression evaluation: for "term op term", op + or -, each term    *)
(* an integer or a symbol that has a value, evaluate_expression returns    *)
(* value(term1) op value(term2), whatever the Symbol Table holds.          *)
(***************************************************************************)
Terms == Symbols \cup {<<"1">>}

TermKnown(term) ==
    IsInt(term) \/ (HasKey(symbol_table, term) /\ GetItem(symbol_table, term) # <<>>)

TermValue(term) == IF IsInt(term) THEN IntOf(term) ELSE IntOf(GetItem(symbol_table, term))

\* C10: evaluate_expression returns value(term1) op value(term2) for known terms.
C10_EvaluatesBinary ==
    \A t1 \in Terms, t2 \in Terms :
        (TermKnown(t1) /\ TermKnown(t2)) =>
            /\ evaluate_expression(symbol_table, t1 \o <<" ", "+", " ">> \o t2)
                   = [ok |-> TRUE, value |-> TermValue(t1) + TermValue(t2)]
            /\ evaluate_expression(symbol_table, t1 \o <<" ", "-", " ">> \o t2)
                   = [ok |-> TRUE, value |-> TermValue(t1) - TermValue(t2)]

(***************************************************************************)
(* C11. Expression evaluation failure: an expression that names a term     *)
(* which is no integer and no symbol with a value in the Symbol Table      *)
(* (not in the table, or there with a blank address) makes                 *)
(* evaluate_expression raise; it never returns an integer.                 *)
(***************************************************************************)
\* The terms of the expressions tried: the symbols of the runs, 1, and a name
\* no statement binds.
ExpressionTerms == Terms \cup {<<"A","A">>}

ExpressionOps == {<<"+">>, <<"-">>}

\* C11: an expression with an unknown term never evaluates to an integer.
C11_UnknownTermFails ==
    \A t1 \in ExpressionTerms :
        /\ ~TermKnown(t1) => ~evaluate_expression(symbol_table, t1).ok
        /\ \A t2 \in ExpressionTerms, op \in ExpressionOps :
               (~TermKnown(t1) \/ ~TermKnown(t2)) =>
                   ~evaluate_expression(symbol_table,
                                        t1 \o <<" ">> \o op \o <<" ">> \o t2).ok

(***************************************************************************)
(* C12. Non-fatal directive failure: an ORIGIN or EQU whose expression     *)
(* does not evaluate is a no-op: the location counter, the Symbol Table,   *)
(* the Literal Table and the Pool Table stay as they were, the line gets   *)
(* an empty record, and pass1 goes on with the next statement.             *)
(***************************************************************************)
\* The expression of an ORIGIN or EQU statement: what follows the directive.
DirectiveExpression(statement) ==
    IF ClassOf(statement) = "ORIGIN"
    THEN Join(Tail(PartsOf(statement)), <<" ">>)
    ELSE Join(SubSeq(PartsOf(statement), 3, Len(PartsOf(statement))), <<" ">>)

\* The step parses an ORIGIN or EQU whose expression raises.
DirectiveFails ==
    /\ ParsesLine
    /\ ClassOf(LineRead) \in {"ORIGIN", "EQU"}
    /\ ~evaluate_expression(symbol_table, DirectiveExpression(LineRead)).ok

C12_Step ==
    DirectiveFails =>
        /\ UNCHANGED <<address, symbol_table, literal_table, pool_table>>
        /\ pass1_output' = Append(pass1_output,
                                  [statement |-> LineRead, intermediate |-> <<>>])
        /\ pc' = "pass1"

\* C12: a failing ORIGIN or EQU changes no table and no counter and emits an empty record.
C12_DirectiveFailureNoOp == [][C12_Step]_vars

\* A run where ORIGIN A + 1 and AB EQU A + 1 failed (A had no value) at
\* counter 1 and pass1 went on: the counter is still 1 and AB is not bound.
C12_Witness ==
    /\ Len(Lines) = 3
    /\ ClassOf(Lines[1]) = "instruction"
    /\ ClassOf(Lines[2]) = "ORIGIN"
    /\ ClassOf(Lines[3]) = "EQU"
    /\ Len(pass1_output) = 3
    /\ address = 1
    /\ symbol_table = <<>>

(***************************************************************************)
(* C13. Flush allocation: allocate_literals entered with location counter  *)
(* L and k >= 1 entries without an address gives those entries, in table   *)
(* order, the addresses L, L+1, ..., L+k-1, leaves the other entries as    *)
(* they are, emits k records, returns L+k and appends one Pool Table       *)
(* boundary, the lowest index it allocated.                                *)
(***************************************************************************)
\* The 1-based indices of the entries of littab without an address.
Unaddressed(littab) == {i \in 1..Len(littab) : littab[i].value = <<>>}

\* A flush took (littab, pool, addr) to (littab2, pool2, addr2) and emitted output.
FlushAllocated(littab, pool, addr, littab2, pool2, addr2, output) ==
    LET todo == Unaddressed(littab)
        k    == Cardinality(todo)
    IN  /\ Len(littab2) = Len(littab)
        /\ \A i \in 1..Len(littab) :
               /\ littab2[i].key = littab[i].key
               /\ littab2[i].value =
                      IF i \in todo
                      THEN Str(addr + Cardinality({j \in todo : j < i}))
                      ELSE littab[i].value
        /\ Len(SplitOn(output, "\n")) = k
        /\ \A j \in 1..k : SplitOn(output, "\n")[j] # <<>>
        /\ addr2 = addr + k
        /\ pool2 = Append(pool, MinOf(todo))

\* allocate_literals, called in any state with an entry without an address
C13_Call ==
    Unaddressed(literal_table) # {} =>
        \A end_value \in {pot[<<"E","N","D">>], pot[<<"L","T","O","R","G">>]} :
            LET r == allocate_literals(literal_table, pool_table, address, end_value)
            IN  FlushAllocated(literal_table, pool_table, address,
                               r.literal_table, r.pool_table, r.address, r.output)

\* LTORG and END, parsed in a state with an entry without an address
C13_Step ==
    (ParsesLine /\ IsFlush(LineRead) /\ Unaddressed(literal_table) # {}) =>
        FlushAllocated(literal_table, pool_table, address,
                       literal_table', pool_table', address',
                       pass1_output'[Len(pass1_output')].intermediate)

\* C13: a flush with k pending entries allocates L..L+k-1 in table order and appends one boundary.
C13_FlushAllocation == []C13_Call /\ [][C13_Step]_vars

\* A flush that found two entries without an address has given them the
\* counter's value and the next one.
C13_Witness ==
    /\ Len(Lines) = 3
    /\ IsFlush(Lines[3])
    /\ Len(literal_table) = 2
    /\ literal_table[1].value = Str(address - 2)
    /\ literal_table[2].value = Str(address - 1)
    /\ pool_table = <<1>>
    /\ Len(SplitOn(pass1_output[3].intermediate, "\n")) = 2

(***************************************************************************)
(* C14. Round trip, A and the pool: pass1 of the 13-line demonstration     *)
(* program ends with A bound to 100 and one entry in the Pool Table.       *)
(***************************************************************************)
\* pass1 has gone through the whole demonstration program.
DemoAssembled == source = DemoProgram

\* C14: the demonstration program ends pass1 with A = 100 and one pool boundary.
C14_DemoBindsAAndPool ==
    DemoAssembled =>
        /\ HasKey(symbol_table, <<"A">>)
        /\ GetItem(symbol_table, <<"A">>) = <<"1","0","0">>
        /\ Len(pool_table) = 1

\* The whole program is assembled, its two literals flushed by END.
C14_Witness ==
    /\ DemoAssembled
    /\ pc = "done"
    /\ Len(literal_table) = 2
    /\ \A k \in 1..Len(literal_table) : literal_table[k].value # <<>>

(***************************************************************************)
(* C15. Round trip, D: pass1 of the demonstration program ends with the    *)
(* symbol D bound to 104.  The program has A DS 3 at 100 and               *)
(* D EQU A + 1, which binds D to 100 + 1.                                  *)
(***************************************************************************)
\* C15, as stated: the demonstration program ends pass1 with D = 104.
C15_DemoBindsD104 ==
    DemoAssembled =>
        /\ HasKey(symbol_table, <<"D">>)
        /\ GetItem(symbol_table, <<"D">>) = <<"1","0","4">>

\* C15, amended: the demonstration program ends pass1 with D = 101, A + 1.
C15_DemoBindsD101 ==
    DemoAssembled =>
        /\ HasKey(symbol_table, <<"A">>) /\ HasKey(symbol_table, <<"D">>)
        /\ GetItem(symbol_table, <<"D">>) = <<"1","0","1">>
        /\ IntOf(GetItem(symbol_table, <<"D">>))
               = IntOf(GetItem(symbol_table, <<"A">>)) + 1

\* The whole program is assembled; D, first named by MOVEM AREG, D, sits at
\* index 5 and has a value.
C15_Witness ==
    /\ DemoAssembled
    /\ HasKey(symbol_table, <<"D">>)
    /\ KeyIndex(symbol_table, <<"D">>) = 5
    /\ GetItem(symbol_table, <<"D">>) # <<>>

(***************************************************************************)
(* C16. Literal index stability: a Literal Table entry created at index i  *)
(* stays at index i for the rest of the run; no later interning, of the    *)
(* same or of another literal, and no flush renumbers, removes or          *)
(* reorders the entries there are.                                         *)
(***************************************************************************)
\* Every entry of littab is in littab2, at the index it has in littab.
KeepsEntries(littab, littab2) ==
    \A i \in 1..Len(littab) :
        Len(littab2) >= i /\ littab2[i].key = littab[i].key

\* The literal operands of the runs, as written and as add_literal strips them.
PoolLiteralTexts ==
    LiteralTexts \cup {<<"'","=","1","9","'">>, <<"=","1","9">>}

\* add_literal and allocate_literals, called in any state
C16_Calls ==
    /\ \A literal \in PoolLiteralTexts :
           KeepsEntries(literal_table,
                        add_literal(literal_table, duplicate_literals,
                                    literal).literal_table)
    /\ \A end_value \in {pot[<<"E","N","D">>], pot[<<"L","T","O","R","G">>]} :
           KeepsEntries(literal_table,
                        allocate_literals(literal_table, pool_table, address,
                                          end_value).literal_table)

\* C16: no step and no call moves, removes or renumbers a Literal Table entry.
C16_LiteralIndexStable ==
    []C16_Calls /\ [][KeepsEntries(literal_table, literal_table')]_vars

\* Three entries, of two literals, created around two flushes that allocated.
C16_Witness ==
    /\ Len(literal_table) = 3
    /\ Len(pool_table) = 2
    /\ \E i \in 1..Len(literal_table) : literal_table[i].key = <<"'","=","1","9","'">>

(***************************************************************************)
(* C17. Duplicate label policy: when a label is bound a second time, the   *)
(* Symbol Table holds the address of the later binding at the symbol's     *)
(* original index, and a duplicate-definition warning is reported; the     *)
(* rebinding is not accepted in silence.                                   *)
(***************************************************************************)
\* The step parses a statement that defines sym, which an earlier one defined.
Rebinds(sym) ==
    /\ ParsesLine
    /\ Defines(LineRead, sym)
    /\ \E h \in 1..Len(Lines) : Defines(Lines[h], sym)

C17_LastWriteWins ==
    \A sym \in Symbols :
        Rebinds(sym) =>
            /\ HasKey(symbol_table, sym) /\ HasKey(symbol_table', sym)
            /\ KeyIndex(symbol_table', sym) = KeyIndex(symbol_table, sym)
            /\ GetItem(symbol_table', sym) = Str(address)

C17_Warned ==
    \A sym \in Symbols : Rebinds(sym) => Len(reports') > Len(reports)

\* C17: a second binding of a label wins, at the original index, and is reported.
C17_DuplicateLabelPolicy == [][C17_LastWriteWins /\ C17_Warned]_vars

(***************************************************************************)
(* C18. Pass 2 is read-only: whatever records pass1 returned, running      *)
(* pass2 leaves the Symbol Table, the Literal Table, the Pool Table and    *)
(* the location counter as pass1 left them.                                *)
(***************************************************************************)
\* The step is the run of pass2.
RunsPass2 == pc = "pass1" /\ pc' = "done"

\* C18: the step that runs pass2 changes no table and not the location counter.
C18_Pass2ReadOnly ==
    [][RunsPass2 =>
           /\ UNCHANGED <<symbol_table, literal_table, pool_table, address>>
           /\ Len(machine_code') = Len(pass1_output)]_vars

\* pass2 has run on records that refer to both tables, after a flush.
C18_Witness ==
    /\ pc = "done"
    /\ symbol_table # <<>>
    /\ literal_table # <<>>
    /\ pool_table # <<>>
    /\ address > 0
    /\ \E i \in 1..Len(machine_code) :
           Contains(<<"(", "L", ",">>, pass1_output[i].intermediate)
    /\ \E i \in 1..Len(machine_code) :
           Contains(<<"(", "S", ",">>, pass1_output[i].intermediate)

(***************************************************************************)
(* C19. Literal address finality: once a flush has given a Literal Table   *)
(* entry an address, no later step of pass1 (interning the same or         *)
(* another literal, a later LTORG, END) changes the address or blanks it:  *)
(* a literal gets storage at most once in a run.                           *)
(***************************************************************************)
\* Every entry of littab that has an address is the same in littab2.
KeepsAddresses(littab, littab2) ==
    \A i \in 1..Len(littab) :
        littab[i].value # <<>> =>
            Len(littab2) >= i /\ littab2[i] = littab[i]

\* C19: no step changes or blanks the address a flush gave to a literal.
C19_LiteralAddressFinal == [][KeepsAddresses(literal_table, literal_table')]_vars

(***************************************************************************)
(* C20. Pool boundaries are ordered: after any sequence of pass1           *)
(* statements the Pool Table is strictly increasing, each boundary a       *)
(* flush appends is greater than every earlier one, and every boundary is  *)
(* a 1-based index of the Literal Table.                                   *)
(***************************************************************************)
C20_BoundariesAreIndices ==
    \A p \in 1..Len(pool_table) : pool_table[p] \in 1..Len(literal_table)

C20_StrictlyIncreasing ==
    \A p \in 1..Len(pool_table), q \in 1..Len(pool_table) :
        p < q => pool_table[p] < pool_table[q]

\* C20: the Pool Table is strictly increasing and holds Literal Table indices.
C20_PoolOrdered == C20_BoundariesAreIndices /\ C20_StrictlyIncreasing

====
